---------------------------- MODULE Spec2Model ----------------------------
(***************************************************************************)
(* A model of stake-o-matic (src/stake-o-matic/src/main.rs): one run of    *)
(* main(), which reads the chain, derives the create and delegate          *)
(* transaction lists for the whitelisted validators, and drives the two    *)
(* batches through transact().                                             *)
(*                                                                         *)
(* The chain client (RpcClient) is the environment: every call may fail,   *)
(* and what a successful call returns is drawn from small sets.  Amounts   *)
(* are in SOL (the code holds lamports, 10^9 per SOL: sol_to_lamports is   *)
(* a change of unit, and only sums and comparisons of amounts are made).   *)
(***************************************************************************)
EXTENDS Integers, Sequences, FiniteSets

VARIABLES
    \* Config (get_config)
    dry_run,                        \* Config.dry_run = !--confirm
    whitelist,                      \* Config.whitelist
    \* locals of main()
    absolute_slot,                  \* epoch_info.absolute_slot
    source_stake_balance,
    quality_block_producers,
    vote_account_info,              \* the whitelisted vote accounts, in listing order
    next_validator,                 \* position of the for loop of line 421
    source_stake_lamports_required,
    create_stake_transactions,
    delegate_stake_transactions,
    confirmations,                  \* what transact returned for the create batch
    metrics,                        \* the validator-status datapoints sent
    \* transact(): its parameters and locals
    batch,                          \* which call of transact is running
    transactions,
    authorized_staker_balance,
    required_fee,
    next_tx,                        \* position of the for loop of line 291
    pending_transactions,
    finalized_transactions,
    statuses,                       \* the reply of get_signature_statuses
    poll_cycles,                    \* iterations of the poll loop that slept
    tx_result,                      \* "none" (running), "Ok", or the Err returned
    \* the chain, as far as the run touched it
    sent,                           \* send_transaction calls made, per batch
    lookups,                        \* get_signature_statuses calls of this batch
    expired,                        \* the batch's blockhash was reported invalid
    short_replies,                  \* get_signature_statuses may answer with fewer
                                    \* statuses than signatures asked for
    stake_lookup_failed,            \* get_account failed for a stake account of
                                    \* a processed validator
    wrong_balance,                  \* a stake account of a processed validator
                                    \* holds another balance than configured
    \* classify_block_producers(): its locals and the set main only traces
    minimum_ledger_slot,
    confirmed_blocks,
    leader_schedule,
    poor_block_producers,
    \* the chain across runs of the program
    chain,                          \* the stake accounts, by validator and kind
    vote_account_status,            \* get_vote_accounts: current ++ delinquent
    run,                            \* the run of the program that is under way
    created,                        \* stake accounts that earlier runs created
    prev,                           \* chain and batches of the last completed
                                    \* evaluation
    \* control
    pc,
    exit_code,
    exit_cause

config_vars == <<dry_run, whitelist>>

chain_vars == <<chain, vote_account_status, run, created, prev>>

classifier_vars == <<minimum_ledger_slot, confirmed_blocks, leader_schedule,
                     poor_block_producers>>

main_vars == <<absolute_slot, source_stake_balance, quality_block_producers,
               vote_account_info, next_validator, source_stake_lamports_required,
               create_stake_transactions, delegate_stake_transactions,
               confirmations, metrics, wrong_balance,
               stake_lookup_failed>>

tx_vars == <<batch, transactions, authorized_staker_balance, required_fee,
             next_tx, pending_transactions, finalized_transactions, statuses,
             poll_cycles, tx_result, sent, lookups, expired, short_replies>>

ctl_vars == <<pc, exit_code, exit_cause>>

vars == <<config_vars, main_vars, classifier_vars, chain_vars, tx_vars, ctl_vars>>

---------------------------------------------------------------------------
(* Bounds of the model *)

\* runs of the program that are followed
MaxRuns == 2
\* validators known to the chain
MaxValidators == 1
\* poll cycles during which a blockhash can stay valid
MaxPolls == 2
\* slots of the epoch that is classified
SlotsPerEpoch == 4
\* transactions of a batch handed to transact() on its own
MaxBatch == 3

(* Program constants *)

BaselineStakeAmount == 5000
BonusStakeAmount == 50000
DelinquentGraceSlotDistance == 21600
QualityBlockProducerPercentage == 75
CurrentTolerance == 256

Validators == 1..MaxValidators

\* the epoch that is classified (last_epoch), lines 384-385
first_slot_in_epoch == SlotsPerEpoch
last_slot_in_epoch == 2 * SlotsPerEpoch - 1

---------------------------------------------------------------------------
(* What the chain can answer *)

\* epoch_info.absolute_slot
AbsoluteSlots == {100, 1000000}

\* RpcVoteAccountInfo.root_slot, for each slot the chain can be at: early in
\* the chain's life a root 10 slots behind; later a current root, the last
\* slot of grace and the first delinquent one
RootSlotsAt ==
    [slot \in AbsoluteSlots |->
        IF slot = 100 THEN {90} ELSE {999900, 978400, 978399}]

RootSlots == UNION {RootSlotsAt[slot] : slot \in AbsoluteSlots}

\* balance of the source stake account
SourceBalances == {5000, 110000}

\* balance of the authorized staker, and fee_calculator.lamports_per_signature
AuthorityBalances == {1, 1000}
FeeRates == {1}

\* an account as get_account finds it: absent, a stake account, or an account
\* that is not a decodable stake account
NoAccount == [kind |-> "absent", lamports |-> 0]

ChainAccounts(amount) ==
    {NoAccount,
     [kind |-> "other", lamports |-> amount],
     [kind |-> "stake", lamports |-> amount],
     [kind |-> "stake", lamports |-> amount + 1]}

\* sequences of distinct elements of S
RECURSIVE DistinctSeqs(_)
DistinctSeqs(S) ==
    {<<>>} \cup UNION {{<<x>> \o t : t \in DistinctSeqs(S \ {x})} : x \in S}

\* get_vote_accounts: current ++ delinquent, one entry per vote account
ListingsOver(validators, root_slots) ==
    UNION {{[i \in 1..Len(order) |-> [node_pubkey |-> order[i], root_slot |-> r[i]]] :
                r \in [1..Len(order) -> root_slots]} :
           order \in DistinctSeqs(validators)}

VoteListings == ListingsOver(Validators, RootSlots)

\* one Option<TransactionStatus> of get_signature_statuses
NoStatus == [present |-> FALSE, confirmations |-> "None", err |-> "None"]

TransactionStatuses ==
    {NoStatus} \cup
    [present : {TRUE}, confirmations : {"None", "Some"}, err : {"None", "Some"}]

---------------------------------------------------------------------------
(* Helpers *)

Range(s) == {s[i] : i \in 1..Len(s)}

RECURSIVE SumSeq(_)
SumSeq(s) == IF s = <<>> THEN 0 ELSE Head(s) + SumSeq(Tail(s))

SelectIdx(s, keep) ==
    LET F[i \in 0..Len(s)] ==
            IF i = 0 THEN <<>>
            ELSE IF keep[i] THEN Append(F[i - 1], s[i]) ELSE F[i - 1]
    IN F[Len(s)]

Min(a, b) == IF a < b THEN a ELSE b

---------------------------------------------------------------------------
(* get_stake_account, lines 170-199: Err when get_account fails (the RPC   *)
(* call failed, or there is no account at the address), when the account   *)
(* is not owned by the stake program or when its state does not decode.    *)

get_stake_account(account, rpc_ok) ==
    IF rpc_ok /\ account.kind = "stake"
    THEN [ok |-> TRUE, lamports |-> account.lamports]
    ELSE [ok |-> FALSE, lamports |-> 0]

---------------------------------------------------------------------------
(* classify_block_producers, lines 201-258.  leader_schedule maps a        *)
(* validator identity to the set of its leader slots, relative to the      *)
(* first slot of the epoch.                                                *)

HistoryUnavailable(minimum_slot) ==
    minimum_slot >= last_slot_in_epoch

\* (mutant) the window not clamped to the retained ledger
FirstSlotUnclamped(minimum_slot) == first_slot_in_epoch

FirstSlot(minimum_slot) ==
    IF minimum_slot > first_slot_in_epoch
    THEN minimum_slot
    ELSE first_slot_in_epoch

\* the slots counted for a validator: line 233-234
ValidatorSlots(relative_slots, first_slot) ==
    {slot \in {first_slot_in_epoch + r : r \in relative_slots} : slot >= first_slot}

ValidatorBlocks(relative_slots, first_slot, blocks) ==
    ValidatorSlots(relative_slots, first_slot) \cap blocks

\* (mutant) the threshold itself counted as quality
IsQualityOrEqual(validator_blocks, validator_slots) ==
    (validator_blocks * 100) \div validator_slots >= QualityBlockProducerPercentage

IsQuality(validator_blocks, validator_slots) ==
    (validator_blocks * 100) \div validator_slots > QualityBlockProducerPercentage

QualityBlockProducers(minimum_slot, blocks, schedule) ==
    LET first_slot == FirstSlot(minimum_slot) IN
    {v \in DOMAIN schedule :
        LET validator_slots ==
                Cardinality(ValidatorSlots(schedule[v], first_slot))
            validator_blocks ==
                Cardinality(ValidatorBlocks(schedule[v], first_slot,
                                            blocks))
        IN validator_slots > 0 /\ IsQuality(validator_blocks, validator_slots)}

PoorBlockProducers(minimum_slot, blocks, schedule) ==
    LET first_slot == FirstSlot(minimum_slot) IN
    {v \in DOMAIN schedule :
        LET validator_slots ==
                Cardinality(ValidatorSlots(schedule[v], first_slot))
            validator_blocks ==
                Cardinality(ValidatorBlocks(schedule[v], first_slot,
                                            blocks))
        IN validator_slots > 0 /\ ~IsQuality(validator_blocks, validator_slots)}

\* a leader that is none of Validators
OtherValidator == 0

\* the leader schedules of the epoch: every slot has one leader
LeaderSchedules ==
    {[v \in Validators |-> {r \in 0..(SlotsPerEpoch - 1) : leader[r] = v}] :
        leader \in [0..(SlotsPerEpoch - 1) -> Validators \cup {OtherValidator}]}

MinimumLedgerSlots == {0, first_slot_in_epoch + 1, last_slot_in_epoch}

---------------------------------------------------------------------------
(* The body of the loop over the vote accounts, lines 421-639 *)

Tx(kind, node) == [kind |-> kind, node |-> node]

\* a stake account on the chain with another balance than the configured one
HoldsOtherBalance(account, amount) ==
    account.kind = "stake" /\ account.lamports # amount

\* lines 447-448 and 476-477: the account was found and holds another balance
UnexpectedBalance(found, amount) == found.ok /\ found.lamports # amount

\* (mutant) the baseline account created whether it was found or not
CreateTransactionsAlways(node, baseline, bonus) ==
    <<Tx("CreateBaseline", node)>>
    \o (IF bonus.ok THEN <<>> ELSE <<Tx("CreateBonus", node)>>)

\* lines 455-474 and 484-503: the transactions creating the stake accounts
CreateTransactions(node, baseline, bonus) ==
    (IF baseline.ok THEN <<>> ELSE <<Tx("CreateBaseline", node)>>)
    \o (IF bonus.ok THEN <<>> ELSE <<Tx("CreateBonus", node)>>)

LamportsRequired(baseline, bonus) ==
    (IF baseline.ok THEN 0 ELSE BaselineStakeAmount)
    + (IF bonus.ok THEN 0 ELSE BonusStakeAmount)

\* line 507, *root_slot > epoch_info.absolute_slot - 256, on u64: below slot 256
\* the subtraction overflows.  A build with overflow checks panics there; one
\* without wraps to 2^64 - (256 - absolute_slot), which no root slot exceeds.
SubtractionOverflows(slot) == slot < CurrentTolerance

IsCurrent(root_slot, slot) ==
    IF SubtractionOverflows(slot) THEN FALSE
    ELSE root_slot > slot - CurrentTolerance

\* line 583, u64::saturating_sub
SaturatingSub(a, b) == IF a >= b THEN a - b ELSE 0

\* (mutant) the last slot of grace counted as delinquent
IsDelinquentOrEqual(root_slot, slot) ==
    root_slot <= SaturatingSub(slot, DelinquentGraceSlotDistance)

\* lines 580-584
IsDelinquent(root_slot, slot) ==
    root_slot < SaturatingSub(slot, DelinquentGraceSlotDistance)

\* lines 507-638: the transactions of the delegate batch for one validator
DelegateTransactions(node, root_slot, slot, quality) ==
    IF IsCurrent(root_slot, slot)
    THEN <<Tx("DelegateBaseline", node),
           IF node \in quality THEN Tx("DelegateBonus", node)
                               ELSE Tx("DeactivateBonus", node)>>
    ELSE IF IsDelinquent(root_slot, slot)
         THEN <<Tx("DeactivateBaseline", node), Tx("DeactivateBonus", node)>>
         ELSE <<>>

\* the validator-status datapoint of the iteration: lines 508-516, 619-636
Datapoints(node, root_slot, slot, dry) ==
    IF IsCurrent(root_slot, slot) \/ ~IsDelinquent(root_slot, slot)
    THEN IF dry THEN <<>> ELSE <<[id |-> node, ok |-> TRUE]>>
    ELSE <<[id |-> node, ok |-> FALSE]>>

\* (mutant) an exactly sufficient balance refused
InsufficientSourceOrEqual(balance, required) == balance <= required

\* line 649
InsufficientSource(balance, required) == balance < required

---------------------------------------------------------------------------
(* transact, lines 260-351 *)

\* lines 274-276: every transaction has one signer, the authorized staker
RequiredFee(txs, lamports_per_signature) == Len(txs) * lamports_per_signature

\* (mutant) the comparison the wrong way round
InsufficientFeeReversed(fee, balance) == fee < balance

\* line 278
InsufficientFee(fee, balance) == fee > balance

\* (mutant) the emptiness test the wrong way round
DryRunStopsEmpty(dry, txs) == dry /\ txs = <<>>

\* (mutant) a dry run stops whatever the batch
DryRunStopsAlways(dry, txs) == dry

\* line 284
DryRunStop(dry, txs) == dry /\ txs # <<>>

\* (mutant) any known status finalizes, confirmations outstanding or not
FinalizesWhenKnown(status) == status.present

\* line 339-340
Finalizes(status) == status.present /\ status.confirmations = "None"

\* lines 335-346: zip pairs the pending transactions with the statuses and
\* stops at the shorter of the two
Zipped(pending, reply) == 1..Min(Len(pending), Len(reply))

NewlyFinalized(pending, reply) ==
    {<<reply[i].err = "None", pending[i]>> :
        i \in {j \in Zipped(pending, reply) : Finalizes(reply[j])}}

StillPending(pending, reply) ==
    SelectIdx(pending,
              [i \in 1..Len(pending) |->
                  i \in Zipped(pending, reply) /\ ~Finalizes(reply[i])])

\* (mutant) the expired transactions are dropped, not reported
ExpireDropsPending(pending, finalized) == finalized

\* (mutant) expiry fails every transaction, those already finalized too
ExpireOverwrites(pending, finalized) ==
    {<<FALSE, t>> : t \in Range(pending)} \cup {<<FALSE, r[2]>> : r \in finalized}

\* lines 319-321
ExpireAll(pending, finalized) ==
    finalized \cup {<<FALSE, t>> : t \in Range(pending)}

\* the replies get_signature_statuses can give for n signatures
Replies(n, short) ==
    UNION {[1..k -> TransactionStatuses] :
              k \in (IF short THEN 0..(n + 1) ELSE {n})}

\* (mutant) aborts only when every create transaction failed
AbortWhenAllFailed(results) ==
    results # {} /\ \A r \in results : r[1] = FALSE

\* lines 665-673
Abort(results) == \E r \in results : r[1] = FALSE

---------------------------------------------------------------------------
(* The run *)

Whitelists == SUBSET Validators

InitTransactWith(short) ==
    /\ authorized_staker_balance = 0
    /\ required_fee = 0
    /\ next_tx = 1
    /\ pending_transactions = <<>>
    /\ finalized_transactions = {}
    /\ statuses = <<>>
    /\ poll_cycles = 0
    /\ tx_result = "none"
    /\ sent = [create |-> 0, delegate |-> 0]
    /\ lookups = 0
    /\ expired = FALSE
    /\ short_replies = short

\* get_signature_statuses answers every signature it was asked about
InitTransact == InitTransactWith(FALSE)

InitClassifier ==
    /\ minimum_ledger_slot = 0
    /\ confirmed_blocks = {}
    /\ leader_schedule = <<>>
    /\ poor_block_producers = {}

\* one run, seen without the chain behind it
InitChain ==
    /\ chain = <<>>
    /\ vote_account_status = <<>>
    /\ run = 1
    /\ created = {}
    /\ prev = <<>>

InitMain ==
    /\ absolute_slot = 0
    /\ source_stake_balance = 0
    /\ quality_block_producers = {}
    /\ vote_account_info = <<>>
    /\ next_validator = 1
    /\ source_stake_lamports_required = 0
    /\ create_stake_transactions = <<>>
    /\ delegate_stake_transactions = <<>>
    /\ confirmations = {}
    /\ metrics = <<>>
    /\ wrong_balance = FALSE
    /\ stake_lookup_failed = FALSE

Init ==
    /\ dry_run \in BOOLEAN
    /\ whitelist \in Whitelists
    /\ InitMain
    /\ InitClassifier
    /\ InitChain
    /\ InitTransact
    /\ batch = "none"
    /\ transactions = <<>>
    /\ pc = "get_epoch_info"
    /\ exit_code = "running"
    /\ exit_cause = "none"

\* (mutant) every way out of the process gives exit code 0
ExitClean(code, cause) ==
    /\ pc' = "exited"
    /\ exit_code' = "0"
    /\ exit_cause' = cause

\* process::exit(code), a panic, or main returning Err (exit code 1)
Exit(code, cause) ==
    /\ pc' = "exited"
    /\ exit_code' = code
    /\ exit_cause' = cause

\* line 359
GetEpochInfo ==
    /\ pc = "get_epoch_info"
    /\ \/ /\ Exit("1", "rpc")
          /\ UNCHANGED absolute_slot
       \/ /\ absolute_slot' \in AbsoluteSlots
          /\ pc' = "check_source"
          /\ UNCHANGED <<exit_code, exit_cause>>
    /\ UNCHANGED <<config_vars, classifier_vars, chain_vars, tx_vars, source_stake_balance,
                   quality_block_producers, vote_account_info, next_validator,
                   source_stake_lamports_required, create_stake_transactions,
                   delegate_stake_transactions, confirmations, metrics,
                   wrong_balance, stake_lookup_failed>>

\* lines 365-381: the source stake account must be a stake account in the
\* Initialized state
CheckSourceStake ==
    /\ pc = "check_source"
    /\ \/ /\ Exit("1", "source_lookup")
          /\ UNCHANGED source_stake_balance
       \/ /\ source_stake_balance' \in SourceBalances
          /\ \/ Exit("1", "source_not_initialized")
             \/ /\ pc' = "classify"
                /\ UNCHANGED <<exit_code, exit_cause>>
    /\ UNCHANGED <<config_vars, classifier_vars, chain_vars, tx_vars, absolute_slot,
                   quality_block_producers, vote_account_info, next_validator,
                   source_stake_lamports_required, create_stake_transactions,
                   delegate_stake_transactions, confirmations, metrics,
                   wrong_balance, stake_lookup_failed>>

\* lines 383-397: the call of classify_block_producers as one step; its
\* locals are gone when it returns
Classify ==
    /\ pc = "classify"
    /\ \/ /\ Exit("1", "rpc")
          /\ UNCHANGED quality_block_producers
       \* line 228: get_leader_schedule answered None, unwrap() panics
       \/ /\ Exit("101", "panic")
          /\ UNCHANGED quality_block_producers
       \/ \E minimum_slot \in MinimumLedgerSlots,
             blocks \in SUBSET (first_slot_in_epoch..last_slot_in_epoch),
             schedule \in LeaderSchedules :
            IF HistoryUnavailable(minimum_slot)
            THEN /\ Exit("1", "history_unavailable")
                 /\ UNCHANGED quality_block_producers
            ELSE /\ quality_block_producers' =
                        QualityBlockProducers(minimum_slot,
                                              blocks, schedule)
                 /\ pc' = "get_vote_accounts"
                 /\ UNCHANGED <<exit_code, exit_cause>>
    /\ UNCHANGED <<config_vars, classifier_vars, chain_vars, tx_vars, absolute_slot, source_stake_balance,
                   vote_account_info, next_validator,
                   source_stake_lamports_required, create_stake_transactions,
                   delegate_stake_transactions, confirmations, metrics,
                   wrong_balance, stake_lookup_failed>>

\* (mutant) the whitelisted vote accounts in the order of the whitelist
WhitelistedInWhitelistOrder(listing, wl) ==
    LET kept == {i \in 1..Len(listing) : listing[i].node_pubkey \in wl}
        rank(i) == Cardinality({j \in kept :
                        listing[j].node_pubkey <= listing[i].node_pubkey})
    IN [n \in 1..Cardinality(kept) |->
            listing[CHOOSE i \in kept : rank(i) = n]]

\* lines 402-415
WhitelistedVoteAccounts(listing, wl) ==
    SelectIdx(listing, [i \in 1..Len(listing) |-> listing[i].node_pubkey \in wl])

GetVoteAccounts ==
    /\ pc = "get_vote_accounts"
    /\ \/ /\ Exit("1", "rpc")
          /\ UNCHANGED vote_account_info
       \/ \E listing \in VoteListings :
            \* a validator has rooted no slot the chain has not reached
            /\ \A i \in 1..Len(listing) :
                    listing[i].root_slot \in RootSlotsAt[absolute_slot]
            /\ vote_account_info' = WhitelistedVoteAccounts(listing, whitelist)
            /\ pc' = "engine"
            /\ UNCHANGED <<exit_code, exit_cause>>
    /\ UNCHANGED <<config_vars, classifier_vars, chain_vars, tx_vars, absolute_slot, source_stake_balance,
                   quality_block_producers, next_validator,
                   source_stake_lamports_required, create_stake_transactions,
                   delegate_stake_transactions, confirmations, metrics,
                   wrong_balance, stake_lookup_failed>>

\* lines 421-639: one iteration of the loop over vote_account_info, given
\* what is at the two stake addresses, whether get_account reaches the chain
\* and whether the build checks for overflow
ProcessWith(baseline_account, bonus_account, baseline_rpc_ok, bonus_rpc_ok, overflow_checks) ==
    /\ pc = "engine"
    /\ next_validator <= Len(vote_account_info)
    /\ LET vai == vote_account_info[next_validator]
           node == vai.node_pubkey
       IN   LET baseline == get_stake_account(baseline_account, baseline_rpc_ok)
                bonus == get_stake_account(bonus_account, bonus_rpc_ok)
            IN /\ stake_lookup_failed' =
                    (\/ stake_lookup_failed
                     \/ ~baseline_rpc_ok
                     \/ ~bonus_rpc_ok)
               /\ wrong_balance' =
                    (\/ wrong_balance
                     \/ HoldsOtherBalance(baseline_account, BaselineStakeAmount)
                     \/ HoldsOtherBalance(bonus_account, BonusStakeAmount))
               /\ IF \/ UnexpectedBalance(baseline, BaselineStakeAmount)
                     \/ UnexpectedBalance(bonus, BonusStakeAmount)
                  THEN /\ Exit("1", "unexpected_balance")
                       /\ UNCHANGED <<next_validator, metrics,
                                      source_stake_lamports_required,
                                      create_stake_transactions,
                                      delegate_stake_transactions>>
                  ELSE IF SubtractionOverflows(absolute_slot) /\ overflow_checks
                  THEN /\ Exit("101", "panic")
                       /\ source_stake_lamports_required' =
                            source_stake_lamports_required
                            + LamportsRequired(baseline, bonus)
                       /\ create_stake_transactions' =
                            create_stake_transactions
                            \o CreateTransactions(node, baseline, bonus)
                       /\ UNCHANGED <<next_validator, metrics,
                                      delegate_stake_transactions>>
                  ELSE /\ source_stake_lamports_required' =
                            source_stake_lamports_required
                            + LamportsRequired(baseline, bonus)
                       /\ create_stake_transactions' =
                            create_stake_transactions
                            \o CreateTransactions(node, baseline, bonus)
                       /\ delegate_stake_transactions' =
                            delegate_stake_transactions
                            \o DelegateTransactions(node, vai.root_slot,
                                                    absolute_slot,
                                                    quality_block_producers)
                       /\ metrics' =
                            metrics \o Datapoints(node, vai.root_slot,
                                                  absolute_slot, dry_run)
                       /\ next_validator' = next_validator + 1
                       /\ UNCHANGED ctl_vars
    /\ UNCHANGED <<config_vars, classifier_vars, chain_vars, tx_vars, absolute_slot, source_stake_balance,
                   quality_block_producers, vote_account_info, confirmations>>

ProcessValidator ==
    \E baseline_account \in ChainAccounts(BaselineStakeAmount),
       bonus_account \in ChainAccounts(BonusStakeAmount),
       baseline_rpc_ok \in BOOLEAN, bonus_rpc_ok \in BOOLEAN,
       overflow_checks \in BOOLEAN :
        ProcessWith(baseline_account, bonus_account, baseline_rpc_ok,
                    bonus_rpc_ok, overflow_checks)

\* a call of transact: lines 658 and 684
TransactCall(which, txs) ==
    /\ batch' = which
    /\ transactions' = txs
    /\ authorized_staker_balance' = 0
    /\ required_fee' = 0
    /\ next_tx' = 1
    /\ pending_transactions' = <<>>
    /\ finalized_transactions' = {}
    /\ statuses' = <<>>
    /\ poll_cycles' = 0
    /\ tx_result' = "none"
    /\ lookups' = 0
    /\ expired' = FALSE
    /\ pc' = "transact_begin"
    /\ UNCHANGED <<sent, short_replies, exit_code, exit_cause>>

\* lines 641-663, and 684 when there is nothing to create
CreateGate ==
    /\ pc = "engine"
    /\ next_validator > Len(vote_account_info)
    /\ IF create_stake_transactions = <<>>
       THEN TransactCall("delegate", delegate_stake_transactions)
       ELSE IF InsufficientSource(source_stake_balance,
                                  source_stake_lamports_required)
            THEN /\ Exit("1", "insufficient_source")
                 /\ UNCHANGED tx_vars
            ELSE TransactCall("create", create_stake_transactions)
    /\ UNCHANGED <<config_vars, classifier_vars, chain_vars, main_vars>>

---------------------------------------------------------------------------
(* transact *)

Return(result) ==
    /\ tx_result' = result
    /\ pc' = "returned"
    /\ UNCHANGED <<exit_code, exit_cause>>

\* lines 266-286
TransactBegin ==
    /\ pc = "transact_begin"
    /\ \/ /\ Return("Err:rpc")
          /\ UNCHANGED <<authorized_staker_balance, required_fee>>
       \/ \E balance \in AuthorityBalances, lamports_per_signature \in FeeRates :
            /\ authorized_staker_balance' = balance
            /\ required_fee' = RequiredFee(transactions, lamports_per_signature)
            /\ IF InsufficientFee(required_fee', balance)
               THEN Return("Err:insufficient_funds")
               ELSE IF DryRunStop(dry_run, transactions)
               THEN Return("Err:confirm_not_provided")
               ELSE /\ pc' = IF transactions = <<>> THEN "poll" ELSE "send"
                    /\ UNCHANGED <<tx_result, exit_code, exit_cause>>
    /\ UNCHANGED <<config_vars, classifier_vars, chain_vars, main_vars, batch, transactions, next_tx,
                   pending_transactions, finalized_transactions, statuses,
                   poll_cycles, sent, lookups, expired, short_replies>>

\* (mutant) a rejected submission returns the error, as `?` would
SendOrReturn ==
    /\ pc = "send"
    /\ next_tx <= Len(transactions)
    /\ \E accepted \in BOOLEAN :
        IF accepted
        THEN /\ pending_transactions' =
                    Append(pending_transactions, transactions[next_tx])
             /\ pc' = IF next_tx = Len(transactions) THEN "poll" ELSE "send"
             /\ UNCHANGED <<tx_result, exit_code, exit_cause>>
        ELSE /\ Return("Err:send_transaction")
             /\ UNCHANGED pending_transactions
    /\ sent' = [sent EXCEPT ![batch] = @ + 1]
    /\ next_tx' = next_tx + 1
    /\ UNCHANGED <<config_vars, classifier_vars, chain_vars, main_vars, batch, transactions,
                   authorized_staker_balance, required_fee, statuses,
                   finalized_transactions, poll_cycles, lookups, expired,
                   short_replies>>

\* lines 291-301: one iteration, signing and sending transactions[next_tx]
Send ==
    /\ pc = "send"
    /\ next_tx <= Len(transactions)
    /\ \E accepted \in BOOLEAN :
        IF accepted
        THEN /\ pending_transactions' =
                    Append(pending_transactions, transactions[next_tx])
             /\ UNCHANGED finalized_transactions
        ELSE /\ finalized_transactions' =
                    finalized_transactions \cup {<<FALSE, transactions[next_tx]>>}
             /\ UNCHANGED pending_transactions
    /\ sent' = [sent EXCEPT ![batch] = @ + 1]
    /\ next_tx' = next_tx + 1
    /\ pc' = IF next_tx = Len(transactions) THEN "poll" ELSE "send"
    /\ UNCHANGED <<config_vars, classifier_vars, chain_vars, main_vars, batch, transactions,
                   authorized_staker_balance, required_fee, statuses,
                   poll_cycles, tx_result, lookups, expired, short_replies,
                   exit_code, exit_cause>>

\* (mutant) the loop tests the wrong vector
PollReturnWhenFinalized ==
    /\ pc = "poll"
    /\ finalized_transactions # {}
    /\ Return("Ok")
    /\ UNCHANGED <<config_vars, classifier_vars, chain_vars, main_vars, batch, transactions,
                   authorized_staker_balance, required_fee, next_tx,
                   pending_transactions, finalized_transactions, statuses,
                   poll_cycles, sent, lookups, expired, short_replies>>

\* lines 303-306 and 350
PollReturn ==
    /\ pc = "poll"
    /\ pending_transactions = <<>>
    /\ Return("Ok")
    /\ UNCHANGED <<config_vars, classifier_vars, chain_vars, main_vars, batch, transactions,
                   authorized_staker_balance, required_fee, next_tx,
                   pending_transactions, finalized_transactions, statuses,
                   poll_cycles, sent, lookups, expired, short_replies>>

\* lines 312-315 and 325-331: get_fee_calculator_for_blockhash fails, or the
\* blockhash is valid and get_signature_statuses fails
PollRpcError ==
    /\ pc = "poll"
    /\ pending_transactions # <<>>
    /\ poll_cycles' = poll_cycles + 1
    /\ Return("Err:rpc_poll")
    /\ UNCHANGED <<config_vars, classifier_vars, chain_vars, main_vars, batch, transactions,
                   authorized_staker_balance, required_fee, next_tx,
                   pending_transactions, finalized_transactions, statuses,
                   sent, lookups, expired, short_replies>>

\* lines 312-323 and 350: the blockhash is reported expired
PollExpired ==
    /\ pc = "poll"
    /\ pending_transactions # <<>>
    /\ poll_cycles' = poll_cycles + 1
    /\ expired' = TRUE
    /\ finalized_transactions' =
            ExpireAll(pending_transactions, finalized_transactions)
    /\ pending_transactions' = <<>>
    /\ Return("Ok")
    /\ UNCHANGED <<config_vars, classifier_vars, chain_vars, main_vars, batch, transactions,
                   authorized_staker_balance, required_fee, next_tx, statuses,
                   sent, lookups, short_replies>>

\* lines 312-347: a whole cycle with a valid blockhash
PollCycle ==
    /\ pc = "poll"
    /\ pending_transactions # <<>>
    /\ poll_cycles < MaxPolls
    /\ poll_cycles' = poll_cycles + 1
    /\ lookups' = lookups + 1
    /\ \E reply \in Replies(Len(pending_transactions), short_replies) :
        /\ finalized_transactions' =
                finalized_transactions
                \cup NewlyFinalized(pending_transactions, reply)
        /\ pending_transactions' = StillPending(pending_transactions, reply)
    /\ UNCHANGED <<config_vars, classifier_vars, chain_vars, main_vars, batch, transactions,
                   authorized_staker_balance, required_fee, next_tx, statuses,
                   tx_result, sent, expired, short_replies, ctl_vars>>

\* lines 312-332: the first half of that cycle, up to the reply
PollStatuses ==
    /\ pc = "poll"
    /\ pending_transactions # <<>>
    /\ poll_cycles < MaxPolls
    /\ poll_cycles' = poll_cycles + 1
    /\ lookups' = lookups + 1
    /\ statuses' \in Replies(Len(pending_transactions), short_replies)
    /\ pc' = "apply"
    /\ UNCHANGED <<config_vars, classifier_vars, chain_vars, main_vars, batch, transactions,
                   authorized_staker_balance, required_fee, next_tx,
                   pending_transactions, finalized_transactions, tx_result,
                   sent, expired, short_replies, exit_code, exit_cause>>

\* lines 334-347: the second half
ApplyStatuses ==
    /\ pc = "apply"
    /\ finalized_transactions' =
            finalized_transactions
            \cup NewlyFinalized(pending_transactions, statuses)
    /\ pending_transactions' = StillPending(pending_transactions, statuses)
    /\ statuses' = <<>>
    /\ pc' = "poll"
    /\ UNCHANGED <<config_vars, classifier_vars, chain_vars, main_vars, batch, transactions,
                   authorized_staker_balance, required_fee, next_tx,
                   poll_cycles, tx_result, sent, lookups, expired,
                   short_replies, exit_code, exit_cause>>

---------------------------------------------------------------------------
(* main, after transact *)

\* lines 663-684
AfterCreate ==
    /\ pc = "returned"
    /\ batch = "create"
    /\ IF tx_result # "Ok"
       THEN /\ Exit("1", tx_result)
            /\ UNCHANGED <<tx_vars, confirmations>>
       ELSE /\ confirmations' = finalized_transactions
            /\ IF Abort(finalized_transactions)
               THEN /\ Exit("1", "create_failed")
                    /\ UNCHANGED tx_vars
               ELSE TransactCall("delegate", delegate_stake_transactions)
    /\ UNCHANGED <<config_vars, classifier_vars, chain_vars, absolute_slot, source_stake_balance,
                   quality_block_producers, vote_account_info, next_validator,
                   source_stake_lamports_required, create_stake_transactions,
                   delegate_stake_transactions, metrics, wrong_balance,
                   stake_lookup_failed>>

\* (mutant) a failed transaction of the delegate batch ends the run as one
\* of the create batch does
AfterDelegateAborts ==
    /\ pc = "returned"
    /\ batch = "delegate"
    /\ IF tx_result # "Ok"
       THEN Exit("1", tx_result)
       ELSE IF Abort(finalized_transactions)
       THEN Exit("1", "delegate_failed")
       ELSE Exit("0", "done")
    /\ UNCHANGED <<config_vars, classifier_vars, chain_vars, main_vars, tx_vars>>

\* lines 689-694
AfterDelegate ==
    /\ pc = "returned"
    /\ batch = "delegate"
    /\ IF tx_result # "Ok"
       THEN Exit("1", tx_result)
       ELSE Exit("0", "done")
    /\ UNCHANGED <<config_vars, classifier_vars, chain_vars, main_vars, tx_vars>>

Next ==
    \/ GetEpochInfo
    \/ CheckSourceStake
    \/ Classify
    \/ GetVoteAccounts
    \/ ProcessValidator
    \/ CreateGate
    \/ TransactBegin
    \/ Send
    \/ PollReturn
    \/ PollRpcError
    \/ PollExpired
    \/ PollCycle
    \/ AfterCreate
    \/ AfterDelegate

Spec == Init /\ [][Next]_vars

---------------------------------------------------------------------------
(* transact on its own: one call on a batch of up to MaxBatch intents,     *)
(* stepping the poll cycle in its two halves so that the reply of the      *)
(* status lookup is a state of its own.                                    *)

Batches == {[i \in 1..n |-> Tx("Intent", i)] : n \in 0..MaxBatch}

TransactInit ==
    /\ dry_run \in BOOLEAN
    /\ whitelist = {}
    /\ InitMain
    /\ InitClassifier
    /\ InitChain
    /\ InitTransact
    /\ batch \in {"create", "delegate"}
    /\ transactions \in Batches
    /\ pc = "transact_begin"
    /\ exit_code = "running"
    /\ exit_cause = "none"

TransactNext ==
    \/ TransactBegin
    \/ Send
    \/ PollReturn
    \/ PollRpcError
    \/ PollExpired
    \/ PollStatuses
    \/ ApplyStatuses

TransactSpec == TransactInit /\ [][TransactNext]_vars

\* main is one thread and every chain call returns: a call of transact that
\* can take a step takes it.  A blockhash is valid for a bounded number of
\* slots: after MaxPolls cycles with a valid blockhash the next cycle finds it
\* expired (or fails to read the chain).
TransactFair == TransactSpec /\ WF_vars(TransactNext)

---------------------------------------------------------------------------
(* The state of one transaction of the running batch, read off the two     *)
(* vectors of transact.                                                    *)

Outcomes(t, finalized) == {r[1] : r \in {q \in finalized : q[2] = t}}

TxStatusIn(i, txs, upto, pending, finalized) ==
    IF Outcomes(txs[i], finalized) = {TRUE} THEN "FinalizedSuccess"
    ELSE IF Outcomes(txs[i], finalized) = {FALSE} THEN "FinalizedFailure"
    ELSE IF Outcomes(txs[i], finalized) # {} THEN "Both"
    ELSE IF txs[i] \in Range(pending) THEN "Pending"
    ELSE IF i >= upto THEN "Unsent"
    ELSE "Lost"

TxStatus(i) ==
    TxStatusIn(i, transactions, next_tx, pending_transactions,
               finalized_transactions)

NothingSent == sent.create = 0 /\ sent.delegate = 0

\* the configured amount of the account a create transaction makes
CreatedAmount(t) ==
    IF t.kind = "CreateBaseline" THEN BaselineStakeAmount ELSE BonusStakeAmount

CreateSum == SumSeq([i \in 1..Len(create_stake_transactions) |->
                        CreatedAmount(create_stake_transactions[i])])

---------------------------------------------------------------------------
(* C1: batch gating.  A delegate transaction is sent only when every       *)
(* transaction of the create batch has been returned finalized; and once   *)
(* a create transaction has finalized as a failure no delegate             *)
(* transaction is ever sent, transact is not called for the delegate       *)
(* batch, and the run, when it has ended, has ended with a nonzero status. *)

CreateFailed ==
    batch = "create" /\ \E r \in finalized_transactions : r[1] = FALSE

C1_BatchGating ==
    /\ sent.delegate > 0 =>
         \A t \in Range(create_stake_transactions) :
            \E r \in confirmations : r[2] = t
    /\ batch = "delegate" =>
         \A t \in Range(create_stake_transactions) : <<TRUE, t>> \in confirmations
    /\ CreateFailed =>
         /\ sent.delegate = 0
         /\ pc = "exited" => exit_code # "0"

\* one create transaction succeeded, the other failed: the run exited with
\* status 1 and sent no delegate transaction
C1_Witness ==
    /\ pc = "exited"
    /\ exit_code = "1"
    /\ exit_cause = "create_failed"
    /\ sent.create = 2
    /\ sent.delegate = 0
    /\ delegate_stake_transactions # <<>>
    /\ \E r1, r2 \in confirmations : r1[1] /\ ~r2[1]

---------------------------------------------------------------------------
(* C3: a dry run changes nothing on the chain.  In every state of a run    *)
(* with dry_run set, no transaction of either batch has been signed and    *)
(* sent: send_transaction was never called and transact holds no pending   *)
(* or finalized transaction.                                               *)

C3_DryRunSendsNothing ==
    dry_run =>
        /\ NothingSent
        /\ pending_transactions = <<>>
        /\ finalized_transactions = {}

\* a dry run with two accounts to create stopped in transact
C3_Witness ==
    /\ dry_run
    /\ pc = "exited"
    /\ batch = "create"
    /\ Len(transactions) = 2
    /\ tx_result = "Err:confirm_not_provided"
    /\ NothingSent

---------------------------------------------------------------------------
(* C4: the funding precondition.  When the amounts of the stake accounts   *)
(* to create add up to more than the balance read from the source stake    *)
(* account, no transaction is ever sent, transact is never called, and the *)
(* run, once ended, has ended with a nonzero status.  When they add up to  *)
(* at most that balance, the step leaving the loop calls transact on the   *)
(* create batch.                                                           *)

SourceRead == pc \notin {"get_epoch_info", "check_source"}

LoopDone == pc = "engine" /\ next_validator > Len(vote_account_info)

C4_Underfunded ==
    (SourceRead /\ CreateSum > source_stake_balance) =>
        /\ NothingSent
        /\ batch = "none"
        /\ pc = "exited" => exit_code # "0"

C4_FundedProceeds ==
    (/\ LoopDone
     /\ create_stake_transactions # <<>>
     /\ CreateSum <= source_stake_balance) =>
        /\ pc' = "transact_begin"
        /\ batch' = "create"
        /\ transactions' = create_stake_transactions

C4_FundingPrecondition == []C4_Underfunded /\ [][C4_FundedProceeds]_vars

\* two accounts to create for 55000 against a balance of 5000: exit 1,
\* nothing sent
C4_Witness ==
    /\ pc = "exited"
    /\ exit_code = "1"
    /\ exit_cause = "insufficient_source"
    /\ Len(create_stake_transactions) = 2
    /\ CreateSum > source_stake_balance
    /\ NothingSent

---------------------------------------------------------------------------
(* C5: a stake account holding another balance than the configured one     *)
(* aborts the run.  Whenever a processed validator's baseline or bonus     *)
(* stake account exists with a balance other than its configured amount,   *)
(* no transaction has been sent and the run, once ended, has ended with a  *)
(* nonzero status.                                                         *)

C5_WrongBalanceAborts ==
    wrong_balance =>
        /\ NothingSent
        /\ pc = "exited" => exit_code # "0"

---------------------------------------------------------------------------
(* The claims about transact are stated on the state of each transaction,  *)
(* before and after a step.                                                *)

TxStatusNext(i) ==
    TxStatusIn(i, transactions', next_tx', pending_transactions',
               finalized_transactions')

IndexOf(t) == CHOOSE i \in 1..Len(transactions) : transactions[i] = t

Batch == 1..Len(transactions)

\* the errors transact returns before it signs anything
BeginErrors == {"Err:rpc", "Err:insufficient_funds", "Err:confirm_not_provided"}

---------------------------------------------------------------------------
(* C2: blockhash expiry.  In the step in which the blockhash is reported   *)
(* invalid every Pending transaction becomes FinalizedFailure, none stays  *)
(* Pending, no status lookup is made and transact returns; after it no     *)
(* status lookup and no further poll cycle is made.                        *)

C2_ExpiryStep ==
    (~expired /\ expired') =>
        /\ \A i \in Batch :
              TxStatus(i) = "Pending" => TxStatusNext(i) = "FinalizedFailure"
        /\ \A i \in Batch : TxStatusNext(i) # "Pending"
        /\ lookups' = lookups
        /\ pc' = "returned"

C2_AfterExpiry ==
    expired => (lookups' = lookups /\ poll_cycles' = poll_cycles)

C2_BlockhashExpiry == [][C2_ExpiryStep /\ C2_AfterExpiry]_vars

\* three transactions Pending after the first cycle, the blockhash invalid
\* on the second: all three reported as failures
C2_Witness ==
    /\ expired
    /\ pc = "returned"
    /\ Len(transactions) = 3
    /\ poll_cycles = 2
    /\ lookups = 1
    /\ finalized_transactions = {<<FALSE, transactions[i]>> : i \in 1..3}

---------------------------------------------------------------------------
(* C6: the fee precondition.  Once transact has read the fee and the       *)
(* balance, a required fee above the authorized staker's balance means     *)
(* that transact has returned the insufficient-funds error and that no     *)
(* transaction of the batch was signed or sent, in a dry run as well.      *)

C6_FeePrecondition ==
    (pc # "transact_begin" /\ required_fee > authorized_staker_balance) =>
        /\ pc = "returned"
        /\ tx_result = "Err:insufficient_funds"
        /\ sent[batch] = 0
        /\ next_tx = 1
        /\ pending_transactions = <<>>
        /\ finalized_transactions = {}

\* a dry run whose batch costs more than the balance: the error is the
\* fee's, not the dry run's
C6_Witness ==
    /\ dry_run
    /\ pc = "returned"
    /\ transactions # <<>>
    /\ required_fee > authorized_staker_balance
    /\ tx_result = "Err:insufficient_funds"

---------------------------------------------------------------------------
(* C7: the state machine of a transaction.  Every transaction is Unsent,   *)
(* Pending, FinalizedSuccess or FinalizedFailure; a step moves it only     *)
(* from Unsent to Pending or FinalizedFailure, or from Pending to          *)
(* FinalizedSuccess or FinalizedFailure; and once the send loop is over    *)
(* no transaction joins the pending ones.                                  *)

TxStates == {"Unsent", "Pending", "FinalizedSuccess", "FinalizedFailure"}

TxMoves == {<<"Unsent", "Pending">>, <<"Unsent", "FinalizedFailure">>,
            <<"Pending", "FinalizedSuccess">>, <<"Pending", "FinalizedFailure">>}

C7_Step ==
    \A i \in Batch :
        \/ TxStatusNext(i) = TxStatus(i)
        \/ <<TxStatus(i), TxStatusNext(i)>> \in TxMoves

C7_PendingShrinks ==
    pc \in {"poll", "apply", "returned"} =>
        Range(pending_transactions') \subseteq Range(pending_transactions)

C7_StateMachine ==
    /\ [](\A i \in Batch : TxStatus(i) \in TxStates)
    /\ [][C7_Step /\ C7_PendingShrinks]_vars

\* a transaction finalized as a success in the first cycle is still one
\* after the blockhash expired in a later cycle and failed another
C7_Witness ==
    /\ expired
    /\ poll_cycles >= 2
    /\ \E i, j \in Batch :
        /\ TxStatus(i) = "FinalizedSuccess"
        /\ TxStatus(j) = "FinalizedFailure"

---------------------------------------------------------------------------
(* C8: a rejected submission is that transaction's failure only.  The step *)
(* in which send_transaction rejects a transaction makes it                *)
(* FinalizedFailure, leaves every other transaction as it was and leaves   *)
(* transact running; once the send loop is over send_transaction has been  *)
(* called for every transaction of the batch; and a batch with a           *)
(* transaction pending does not return without a poll cycle.               *)

C8_RejectionStep ==
    (pc = "send" /\ TxStatusNext(next_tx) # "Pending") =>
        /\ TxStatusNext(next_tx) = "FinalizedFailure"
        /\ \A j \in Batch \ {next_tx} : TxStatusNext(j) = TxStatus(j)
        /\ sent'[batch] = sent[batch] + 1
        /\ next_tx' = next_tx + 1
        /\ tx_result' = "none"
        /\ pc' \in {"send", "poll"}

C8_AllSubmitted ==
    (pc \notin {"transact_begin", "send"} /\ tx_result \notin BeginErrors) =>
        /\ sent[batch] = Len(transactions)
        /\ \A i \in Batch : TxStatus(i) # "Unsent"

C8_PendingIsPolled ==
    (pc = "poll" /\ pending_transactions # <<>> /\ pc' = "returned") =>
        poll_cycles' = poll_cycles + 1

C8_SubmissionIsolated ==
    /\ []C8_AllSubmitted
    /\ [][C8_RejectionStep /\ C8_PendingIsPolled]_vars

\* the first of three transactions was rejected, the other two were sent
\* and are about to be polled
C8_Witness ==
    /\ pc = "poll"
    /\ poll_cycles = 0
    /\ Len(transactions) = 3
    /\ sent[batch] = 3
    /\ TxStatus(1) = "FinalizedFailure"
    /\ TxStatus(2) = "Pending"
    /\ TxStatus(3) = "Pending"

---------------------------------------------------------------------------
(* C9: the finalization rule.  When the reply of a status lookup is        *)
(* applied, a pending transaction whose status is present with no          *)
(* confirmations outstanding becomes FinalizedSuccess if the status        *)
(* carries no error and FinalizedFailure if it does; any other pending     *)
(* transaction stays Pending.                                              *)

C9_Rule ==
    pc = "apply" =>
        \A k \in 1..Len(pending_transactions) :
            TxStatusNext(IndexOf(pending_transactions[k])) =
                IF statuses[k].present /\ statuses[k].confirmations = "None"
                THEN IF statuses[k].err = "None" THEN "FinalizedSuccess"
                                                 ELSE "FinalizedFailure"
                ELSE "Pending"

C9_PollFinalization == [][C9_Rule]_vars

\* the one reply of the first cycle has been applied: it left the first
\* transaction pending, finalized the second without an error and the third
\* with one
C9_Witness ==
    /\ pc = "poll"
    /\ ~expired
    /\ lookups = 1
    /\ poll_cycles = 1
    /\ Len(transactions) = 3
    /\ sent[batch] = 3
    /\ TxStatus(1) = "Pending"
    /\ TxStatus(2) = "FinalizedSuccess"
    /\ TxStatus(3) = "FinalizedFailure"

---------------------------------------------------------------------------
(* C10, as claimed: transact returns with no transaction left Pending.     *)

C10_ReturnsNothingPending ==
    pc = "returned" => pending_transactions = <<>>

(* C10, amended: the poll loop ends when no transaction is pending, or     *)
(* when a chain read of a poll cycle fails, which returns that error and   *)
(* leaves the pending transactions as they are.  A loop with nothing       *)
(* pending returns at once, without a cycle; a return of Ok leaves nothing *)
(* pending; and every call of transact returns.                            *)

C10_LoopEnds ==
    (pc = "poll" /\ pc' # "poll") =>
        \/ pc' = "returned" /\ tx_result' = "Ok" /\ pending_transactions' = <<>>
        \/ pc' = "returned" /\ tx_result' = "Err:rpc_poll"
                            /\ pending_transactions # <<>>
        \/ pc' = "apply" /\ pending_transactions # <<>>

C10_EmptyReturns ==
    (pc = "poll" /\ pending_transactions = <<>>) =>
        (pc' = "returned" /\ tx_result' = "Ok" /\ poll_cycles' = poll_cycles)

C10_OkNothingPending ==
    (pc = "returned" /\ tx_result = "Ok") =>
        /\ pending_transactions = <<>>
        /\ \A i \in Batch : TxStatus(i) \in {"FinalizedSuccess", "FinalizedFailure"}

C10_Termination ==
    /\ []C10_OkNothingPending
    /\ [][C10_LoopEnds /\ C10_EmptyReturns]_vars
    /\ (pc = "transact_begin") ~> (pc = "returned")

\* a live batch of three returned Ok after two cycles of status lookups,
\* the blockhash still valid
C10_Witness ==
    /\ pc = "returned"
    /\ tx_result = "Ok"
    /\ ~dry_run
    /\ ~expired
    /\ Len(transactions) = 3
    /\ lookups = 2
    /\ \A i \in Batch : TxStatus(i) \in {"FinalizedSuccess", "FinalizedFailure"}

---------------------------------------------------------------------------
(* The claims about the policy engine are stated on the validators the     *)
(* loop has processed and on what it pushed for each of them.              *)

Processed == 1..(next_validator - 1)

\* the transactions of a list that are about one validator, in order
TxsOf(txs, node) ==
    SelectIdx(txs, [i \in 1..Len(txs) |-> txs[i].node = node])

\* the validator-status datapoints of one validator, in order
ReportsOf(node) ==
    SelectIdx(metrics, [i \in 1..Len(metrics) |-> metrics[i].id = node])

\* the two tests as the policy states them, on the integers
CurrentByPolicy(root_slot, slot) == root_slot > slot - CurrentTolerance

DelinquentByPolicy(root_slot, slot) ==
    root_slot < slot - DelinquentGraceSlotDistance

---------------------------------------------------------------------------
(* C11: action selection for a current validator.  Every processed         *)
(* validator with root_slot > current_slot - 256 has exactly two           *)
(* transactions in the delegate batch: DelegateBaseline, then              *)
(* DelegateBonus if it is in the quality set and DeactivateBonus if not.   *)

C11_CurrentValidatorActions ==
    \A i \in Processed :
        LET vai == vote_account_info[i] IN
        CurrentByPolicy(vai.root_slot, absolute_slot) =>
            TxsOf(delegate_stake_transactions, vai.node_pubkey) =
                <<Tx("DelegateBaseline", vai.node_pubkey),
                  IF vai.node_pubkey \in quality_block_producers
                  THEN Tx("DelegateBonus", vai.node_pubkey)
                  ELSE Tx("DeactivateBonus", vai.node_pubkey)>>

---------------------------------------------------------------------------
(* C12, as claimed: a processed validator that is not current is fully     *)
(* delinquent iff root_slot < current_slot - grace_distance; then it has   *)
(* exactly DeactivateBaseline and DeactivateBonus in the delegate batch    *)
(* and is reported ok=false; otherwise it has no transaction in the        *)
(* delegate batch and is reported ok.                                      *)

C12_GraceReportedOk ==
    \A i \in Processed :
        LET vai == vote_account_info[i]
            node == vai.node_pubkey
        IN ~CurrentByPolicy(vai.root_slot, absolute_slot) =>
            IF DelinquentByPolicy(vai.root_slot, absolute_slot)
            THEN /\ TxsOf(delegate_stake_transactions, node) =
                        <<Tx("DeactivateBaseline", node),
                          Tx("DeactivateBonus", node)>>
                 /\ ReportsOf(node) = <<[id |-> node, ok |-> FALSE]>>
            ELSE /\ TxsOf(delegate_stake_transactions, node) = <<>>
                 /\ ReportsOf(node) = <<[id |-> node, ok |-> TRUE]>>

(* C12, amended: the same, except that a validator in grace is reported ok *)
(* in a live run only: a dry run reports nothing for it (and still reports *)
(* ok=false for a fully delinquent one).                                   *)

C12_DelinquencyAndGrace ==
    \A i \in Processed :
        LET vai == vote_account_info[i]
            node == vai.node_pubkey
        IN ~CurrentByPolicy(vai.root_slot, absolute_slot) =>
            IF DelinquentByPolicy(vai.root_slot, absolute_slot)
            THEN /\ TxsOf(delegate_stake_transactions, node) =
                        <<Tx("DeactivateBaseline", node),
                          Tx("DeactivateBonus", node)>>
                 /\ ReportsOf(node) = <<[id |-> node, ok |-> FALSE]>>
            ELSE /\ TxsOf(delegate_stake_transactions, node) = <<>>
                 /\ ReportsOf(node) =
                        IF dry_run THEN <<>> ELSE <<[id |-> node, ok |-> TRUE]>>

\* a live run at slot 1,000,000 has processed a validator rooted exactly
\* 21,600 slots behind: in grace, nothing pushed, reported ok
C12_Witness ==
    /\ ~dry_run
    /\ absolute_slot = 1000000
    /\ \E i \in Processed :
        /\ vote_account_info[i].root_slot = 978400
        /\ TxsOf(delegate_stake_transactions,
                 vote_account_info[i].node_pubkey) = <<>>
        /\ ReportsOf(vote_account_info[i].node_pubkey) =
                <<[id |-> vote_account_info[i].node_pubkey, ok |-> TRUE]>>

---------------------------------------------------------------------------
(* classify_block_producers on its own: the call of lines 392-397, made    *)
(* after main has read the epoch and the source stake account, stepped     *)
(* through its chain reads so that its locals are part of the state.       *)

ClassifyInit ==
    /\ dry_run \in BOOLEAN
    /\ whitelist \in Whitelists
    /\ absolute_slot \in AbsoluteSlots
    /\ source_stake_balance \in SourceBalances
    /\ quality_block_producers = {}
    /\ vote_account_info = <<>>
    /\ next_validator = 1
    /\ source_stake_lamports_required = 0
    /\ create_stake_transactions = <<>>
    /\ delegate_stake_transactions = <<>>
    /\ confirmations = {}
    /\ metrics = <<>>
    /\ wrong_balance = FALSE
    /\ stake_lookup_failed = FALSE
    /\ InitClassifier
    /\ InitChain
    /\ InitTransact
    /\ batch = "none"
    /\ transactions = <<>>
    /\ pc = "classify"
    /\ exit_code = "running"
    /\ exit_cause = "none"

\* lines 207-220; an Err of classify_block_producers is returned by main
\* (line 397), which ends the process with exit code 1
MinimumLedgerSlot ==
    /\ pc = "classify"
    /\ \/ /\ Exit("1", "rpc")
          /\ UNCHANGED minimum_ledger_slot
       \/ /\ minimum_ledger_slot' \in MinimumLedgerSlots
          /\ IF HistoryUnavailable(minimum_ledger_slot')
             THEN Exit("1", "history_unavailable")
             ELSE /\ pc' = "get_confirmed_blocks"
                  /\ UNCHANGED <<exit_code, exit_cause>>
    /\ UNCHANGED <<config_vars, chain_vars, main_vars, tx_vars, confirmed_blocks,
                   leader_schedule, poor_block_producers>>

\* lines 222-223
GetConfirmedBlocks ==
    /\ pc = "get_confirmed_blocks"
    /\ \/ /\ Exit("1", "rpc")
          /\ UNCHANGED confirmed_blocks
       \/ /\ confirmed_blocks' \in
                SUBSET (FirstSlot(minimum_ledger_slot)..last_slot_in_epoch)
          /\ pc' = "get_leader_schedule"
          /\ UNCHANGED <<exit_code, exit_cause>>
    /\ UNCHANGED <<config_vars, chain_vars, main_vars, tx_vars, minimum_ledger_slot,
                   leader_schedule, poor_block_producers>>

\* line 228
GetLeaderSchedule ==
    /\ pc = "get_leader_schedule"
    /\ \/ /\ Exit("1", "rpc")
          /\ UNCHANGED leader_schedule
       \/ /\ Exit("101", "panic")
          /\ UNCHANGED leader_schedule
       \/ /\ leader_schedule' \in LeaderSchedules
          /\ pc' = "classify_loop"
          /\ UNCHANGED <<exit_code, exit_cause>>
    /\ UNCHANGED <<config_vars, chain_vars, main_vars, tx_vars, minimum_ledger_slot,
                   confirmed_blocks, poor_block_producers>>

\* lines 225-257
ClassifyProducers ==
    /\ pc = "classify_loop"
    /\ quality_block_producers' =
            QualityBlockProducers(minimum_ledger_slot, confirmed_blocks,
                                  leader_schedule)
    /\ poor_block_producers' =
            PoorBlockProducers(minimum_ledger_slot, confirmed_blocks,
                               leader_schedule)
    /\ pc' = "get_vote_accounts"
    /\ UNCHANGED <<config_vars, chain_vars, tx_vars, absolute_slot, source_stake_balance,
                   vote_account_info, next_validator,
                   source_stake_lamports_required, create_stake_transactions,
                   delegate_stake_transactions, confirmations, metrics,
                   wrong_balance, stake_lookup_failed,
                   minimum_ledger_slot, confirmed_blocks,
                   leader_schedule, exit_code, exit_cause>>

ClassifyNext ==
    \/ MinimumLedgerSlot
    \/ GetConfirmedBlocks
    \/ GetLeaderSchedule
    \/ ClassifyProducers

ClassifySpec == ClassifyInit /\ [][ClassifyNext]_vars

---------------------------------------------------------------------------
(* The claims about the classifier are stated on what the chain answered.  *)

Classified == pc = "get_vote_accounts"

\* where the evaluation window starts
WindowStart ==
    IF minimum_ledger_slot >= first_slot_in_epoch
    THEN minimum_ledger_slot ELSE first_slot_in_epoch

\* the slots of a validator in the window, and those of them with a block
Assigned(v) ==
    {slot \in WindowStart..last_slot_in_epoch :
        \E r \in leader_schedule[v] : slot = first_slot_in_epoch + r}

Produced(v) == Assigned(v) \cap confirmed_blocks

Ratio(v) == (Cardinality(Produced(v)) * 100) \div Cardinality(Assigned(v))

---------------------------------------------------------------------------
(* C13: block production classification.  Once the classifier has          *)
(* returned, a validator of the leader schedule with assigned slots in the *)
(* window is in the quality set iff floor(produced * 100 / assigned) is    *)
(* above the threshold and in the poor set otherwise; one without assigned *)
(* slots in the window is in neither set; the two sets are disjoint.       *)

C13_Classification ==
    Classified =>
        /\ \A v \in DOMAIN leader_schedule :
              IF Assigned(v) # {}
              THEN /\ v \in quality_block_producers
                        <=> Ratio(v) > QualityBlockProducerPercentage
                   /\ v \in poor_block_producers
                        <=> ~(Ratio(v) > QualityBlockProducerPercentage)
              ELSE /\ v \notin quality_block_producers
                   /\ v \notin poor_block_producers
        /\ quality_block_producers \cap poor_block_producers = {}
        /\ quality_block_producers \cup poor_block_producers
                \subseteq DOMAIN leader_schedule

\* a validator that produced three of its four slots is poor
C13_Witness ==
    /\ Classified
    /\ \E v \in DOMAIN leader_schedule :
        /\ Cardinality(Assigned(v)) = 4
        /\ Cardinality(Produced(v)) = 3
        /\ v \in poor_block_producers

---------------------------------------------------------------------------
(* C14: the classifier window.  The window starts at the later of the      *)
(* epoch's first slot and the minimum retained slot: the validators        *)
(* classified are those with a leader slot at or after that start, and a   *)
(* validator is quality iff more than the threshold of its slots at or     *)
(* after the start are confirmed blocks.  If the start is at or after the  *)
(* epoch's last slot the classification fails: the process has exited with *)
(* a nonzero code, nothing classified and no transaction sent.             *)

C14_Counted ==
    Classified =>
        \A v \in DOMAIN leader_schedule :
            LET counted == {r \in leader_schedule[v] :
                                first_slot_in_epoch + r >= WindowStart}
                blocks == {r \in counted :
                                first_slot_in_epoch + r \in confirmed_blocks}
            IN /\ v \in quality_block_producers \cup poor_block_producers
                    <=> counted # {}
               /\ v \in quality_block_producers
                    <=> /\ counted # {}
                        /\ (Cardinality(blocks) * 100) \div Cardinality(counted)
                                > QualityBlockProducerPercentage

C14_Fatal ==
    (pc # "classify" /\ WindowStart >= last_slot_in_epoch) =>
        /\ pc = "exited"
        /\ exit_code = "1"
        /\ quality_block_producers = {}
        /\ poor_block_producers = {}
        /\ NothingSent

C14_Window == C14_Counted /\ C14_Fatal

\* the ledger starts one slot into the epoch: a validator leading the first
\* two slots of the epoch is classified on the second alone, a block
C14_Witness ==
    /\ Classified
    /\ minimum_ledger_slot = first_slot_in_epoch + 1
    /\ \E v \in DOMAIN leader_schedule :
        /\ leader_schedule[v] = {0, 1}
        /\ first_slot_in_epoch + 1 \in confirmed_blocks
        /\ v \in quality_block_producers

---------------------------------------------------------------------------
(* C15: chain-read failures abort the run.  When a chain read of main has  *)
(* failed the process has exited with a nonzero code and no transaction    *)
(* was sent; in particular, as soon as the lookup of a stake account has   *)
(* failed the run is over, with nothing sent.                              *)

ReadFailed == exit_cause \in {"rpc", "source_lookup"}

C15_ReadFailureExits ==
    ReadFailed => (pc = "exited" /\ exit_code = "1" /\ NothingSent)

C15_ReadFailureAborts ==
    /\ C15_ReadFailureExits
    /\ stake_lookup_failed =>
            (pc = "exited" /\ exit_code # "0" /\ NothingSent)

---------------------------------------------------------------------------
(* C16: the dry-run short-circuit is not an error.  A run that ended       *)
(* because transact stopped a non-empty batch in a dry run has not ended   *)
(* as a failed run: its exit code is 0.                                    *)

C16_DryRunNotAnError ==
    (pc = "exited" /\ exit_cause = "Err:confirm_not_provided") =>
        exit_code = "0"

---------------------------------------------------------------------------
(* C17, as claimed: transact called with an empty batch returns Ok with no *)
(* outcome, nothing sent and no poll cycle made; it is never an error.     *)

C17_EmptyBatchNeverFails ==
    (transactions = <<>> /\ pc = "returned") =>
        /\ tx_result = "Ok"
        /\ finalized_transactions = {}
        /\ sent[batch] = 0
        /\ poll_cycles = 0

(* C17, amended: transact called with an empty batch, in a dry run or a    *)
(* live one, sends nothing, makes no poll cycle and no status lookup and   *)
(* has no outcome to return; it returns Ok unless its read of the          *)
(* blockhash or of the balance fails, and then it returns that error.      *)

C17_Quiet ==
    transactions = <<>> =>
        /\ pc \in {"transact_begin", "poll", "returned"}
        /\ pc = "returned" => tx_result \in {"Ok", "Err:rpc"}
        /\ pending_transactions = <<>>
        /\ finalized_transactions = {}
        /\ sent[batch] = 0
        /\ poll_cycles = 0
        /\ lookups = 0
        /\ ~expired

C17_ReturnsOk ==
    (transactions = <<>> /\ pc = "poll") =>
        (pc' = "returned" /\ tx_result' = "Ok")

C17_EmptyBatch == []C17_Quiet /\ [][C17_ReturnsOk]_vars

\* a dry run with an empty batch has returned Ok
C17_Witness ==
    /\ dry_run
    /\ transactions = <<>>
    /\ pc = "returned"
    /\ tx_result = "Ok"
    /\ finalized_transactions = {}

---------------------------------------------------------------------------
(* Runs of the program, one after the other, against the stake accounts    *)
(* they leave behind.  Every chain read succeeds.  A run starts where the  *)
(* loop over the vote accounts starts; what the two calls of transact do   *)
(* is kept as their effect on the chain: a create transaction that         *)
(* succeeds splits the configured amount off the source account into the   *)
(* stake account (split_with_seed, lines 457-464 and 486-493).  The runs   *)
(* are followed with one validator more than main is, so that the order of *)
(* the listing shows.                                                      *)

RunValidators == 1..(MaxValidators + 1)

Kinds == {"baseline", "bonus"}

ConfiguredAmount(kind) ==
    IF kind = "baseline" THEN BaselineStakeAmount ELSE BonusStakeAmount

StakeAccount(kind) == [kind |-> "stake", lamports |-> ConfiguredAmount(kind)]

\* the stake account a create transaction is for
AccountOf(t) == <<t.node, IF t.kind = "CreateBaseline" THEN "baseline" ELSE "bonus">>

\* every stake address is empty or holds the account the program creates
RunChains ==
    {c \in [RunValidators \X Kinds -> {NoAccount} \cup {StakeAccount(k) : k \in Kinds}] :
        \A a \in RunValidators \X Kinds : c[a] \in {NoAccount, StakeAccount(a[2])}}

NoEvaluation == <<>>

\* the root slots of the listing the runs see: the one on the edge of grace,
\* which main covers, is left out
RunRootSlots(slot) == {r \in RootSlotsAt[slot] : r # 978400}

\* the source stake account is the fuller one of main's
RunSourceBalance == CHOOSE b \in SourceBalances : \A c \in SourceBalances : c <= b

RunsInit ==
    /\ dry_run \in BOOLEAN
    /\ whitelist \in SUBSET RunValidators
    /\ absolute_slot \in AbsoluteSlots
    /\ source_stake_balance = RunSourceBalance
    \* the first validator is a quality block producer, the others are not
    /\ quality_block_producers = {1}
    /\ vote_account_status \in
            ListingsOver(RunValidators, RunRootSlots(absolute_slot))
    /\ vote_account_info = WhitelistedVoteAccounts(vote_account_status, whitelist)
    /\ next_validator = 1
    /\ source_stake_lamports_required = 0
    /\ create_stake_transactions = <<>>
    /\ delegate_stake_transactions = <<>>
    /\ confirmations = {}
    /\ metrics = <<>>
    /\ wrong_balance = FALSE
    /\ stake_lookup_failed = FALSE
    /\ chain \in RunChains
    /\ run = 1
    /\ created = {}
    /\ prev = NoEvaluation
    /\ InitClassifier
    /\ InitTransact
    /\ batch = "none"
    /\ transactions = <<>>
    /\ pc = "engine"
    /\ exit_code = "running"
    /\ exit_cause = "none"

\* lines 421-639, with what the chain holds at the two addresses
ProcessOnChain ==
    /\ pc = "engine"
    /\ next_validator <= Len(vote_account_info)
    /\ \E overflow_checks \in BOOLEAN :
        ProcessWith(chain[<<vote_account_info[next_validator].node_pubkey, "baseline">>],
                    chain[<<vote_account_info[next_validator].node_pubkey, "bonus">>],
                    TRUE, TRUE, overflow_checks)

\* lines 640-694: the create batch, of which any part may succeed (none in
\* a dry run or when the source account cannot fund it), and the exit
Submit ==
    /\ LoopDone
    /\ \E done \in SUBSET Range(create_stake_transactions) :
        /\ (\/ dry_run
            \/ InsufficientSource(source_stake_balance,
                                  source_stake_lamports_required)) => done = {}
        /\ chain' = [a \in DOMAIN chain |->
                        IF \E t \in done : AccountOf(t) = a
                        THEN StakeAccount(a[2]) ELSE chain[a]]
        /\ created' = created \cup {AccountOf(t) : t \in done}
        /\ source_stake_balance' =
                source_stake_balance
                - SumSeq(SelectIdx(
                    [k \in 1..Len(create_stake_transactions) |->
                        ConfiguredAmount(AccountOf(create_stake_transactions[k])[2])],
                    [k \in 1..Len(create_stake_transactions) |->
                        create_stake_transactions[k] \in done]))
        /\ Exit(IF \/ done # Range(create_stake_transactions)
                   \/ DryRunStop(dry_run, create_stake_transactions
                                          \o delegate_stake_transactions)
                THEN "1" ELSE "0", "run_over")
    /\ prev' = [chain |-> chain,
                create |-> create_stake_transactions,
                delegate |-> delegate_stake_transactions]
    /\ UNCHANGED <<config_vars, classifier_vars, tx_vars, vote_account_status,
                   run, absolute_slot, quality_block_producers,
                   vote_account_info, next_validator,
                   source_stake_lamports_required, create_stake_transactions,
                   delegate_stake_transactions, confirmations, metrics,
                   wrong_balance, stake_lookup_failed>>

\* the program is started again: lines 354-419
NextRun ==
    /\ pc = "exited"
    /\ run < MaxRuns
    /\ run' = run + 1
    /\ next_validator' = 1
    /\ source_stake_lamports_required' = 0
    /\ create_stake_transactions' = <<>>
    /\ delegate_stake_transactions' = <<>>
    /\ metrics' = <<>>
    /\ wrong_balance' = FALSE
    /\ stake_lookup_failed' = FALSE
    /\ pc' = "engine"
    /\ exit_code' = "running"
    /\ exit_cause' = "none"
    /\ UNCHANGED <<config_vars, classifier_vars, tx_vars, chain,
                   vote_account_status, created, prev, absolute_slot,
                   source_stake_balance, quality_block_producers,
                   vote_account_info, confirmations>>

RunsNext ==
    \/ ProcessOnChain
    \/ Submit
    \/ NextRun

RunsSpec == RunsInit /\ [][RunsNext]_vars

---------------------------------------------------------------------------
(* The claims about runs are stated on the chain a run reads and on the    *)
(* batches it has built.                                                   *)

\* the create transactions built so far for one stake account
CreatesFor(a) ==
    {k \in 1..Len(create_stake_transactions) :
        AccountOf(create_stake_transactions[k]) = a}

\* whether the nodes of a list of transactions come in the order pos gives
InOrder(txs, pos) ==
    \A j, k \in 1..Len(txs) : j < k => pos[txs[j].node] <= pos[txs[k].node]

\* the place of a validator in the chain's listing (0: not listed)
ListingPositionOf(v) ==
    IF \E i \in 1..Len(vote_account_status) :
            vote_account_status[i].node_pubkey = v
    THEN CHOOSE i \in 1..Len(vote_account_status) :
            vote_account_status[i].node_pubkey = v
    ELSE 0

\* the place of a validator in the whitelist file, lines 128-140: the
\* validators are numbered in the order of the file
WhitelistPositionOf(v) == Cardinality({w \in whitelist : w <= v})

ListingPosition == [v \in RunValidators |-> ListingPositionOf(v)]

WhitelistPosition == [v \in RunValidators |-> WhitelistPositionOf(v)]

---------------------------------------------------------------------------
(* C18: creation at most once across runs.  In every run a create          *)
(* transaction is built for a stake account only while nothing is at its   *)
(* address, and exactly one for each account of a processed validator that *)
(* is missing; an account an earlier run created is there with its         *)
(* configured balance and no create transaction is built for it again;     *)
(* and the delegate batch of a run is the same as that of the run before,  *)
(* whatever was created in between.                                        *)

\* the run is at its loop: the chain is the one it reads
Evaluating == pc = "engine"

C18_OnlyWhileAbsent ==
    Evaluating =>
        \A k \in 1..Len(create_stake_transactions) :
            chain[AccountOf(create_stake_transactions[k])] = NoAccount

C18_OncePerMissing ==
    Evaluating =>
        \A i \in Processed, kind \in Kinds :
            LET a == <<vote_account_info[i].node_pubkey, kind>> IN
            Cardinality(CreatesFor(a)) = IF chain[a] = NoAccount THEN 1 ELSE 0

C18_NeverAgain ==
    /\ \A a \in created : chain[a] = StakeAccount(a[2])
    /\ Evaluating => \A a \in created : CreatesFor(a) = {}

C18_Rederived ==
    (LoopDone /\ prev # NoEvaluation) =>
        delegate_stake_transactions = prev.delegate

C18_CreateOnce ==
    /\ C18_OnlyWhileAbsent
    /\ C18_OncePerMissing
    /\ C18_NeverAgain
    /\ C18_Rederived

\* the second run has processed a validator whose two stake accounts the
\* first run created: nothing to create, the delegate batch built again
C18_Witness ==
    /\ run = 2
    /\ LoopDone
    /\ create_stake_transactions = <<>>
    /\ delegate_stake_transactions # <<>>
    /\ \E i \in Processed :
        \A kind \in Kinds : <<vote_account_info[i].node_pubkey, kind>> \in created

---------------------------------------------------------------------------
(* C19, as claimed: the order of the actions follows the whitelist.        *)

C19_SameBatches ==
    (LoopDone /\ prev # NoEvaluation /\ prev.chain = chain) =>
        /\ create_stake_transactions = prev.create
        /\ delegate_stake_transactions = prev.delegate

C19_FollowsListing ==
    /\ InOrder(create_stake_transactions, ListingPosition)
    /\ InOrder(delegate_stake_transactions, ListingPosition)
    /\ \A i \in 1..Len(vote_account_info) :
            /\ vote_account_info[i].node_pubkey \in whitelist
            /\ ListingPosition[vote_account_info[i].node_pubkey] > 0

---------------------------------------------------------------------------
(* C20: whitelist coverage.  When the loop of a run is over, a create      *)
(* transaction has been built for every stake account of a whitelisted     *)
(* validator that does not exist, whether the chain lists the validator    *)
(* or not.                                                                 *)

C20_WhitelistCoverage ==
    LoopDone =>
        \A v \in whitelist, kind \in Kinds :
            chain[<<v, kind>>] = NoAccount => CreatesFor(<<v, kind>>) # {}

\* the same, for the whitelisted validators that the chain lists
C20_ListedCoverage ==
    LoopDone =>
        \A v \in whitelist, kind \in Kinds :
            (ListingPosition[v] > 0 /\ chain[<<v, kind>>] = NoAccount)
                => CreatesFor(<<v, kind>>) # {}

---------------------------------------------------------------------------
(* C21: the exit status.  A run that went through both calls of transact   *)
(* exits with code 0, and no other run does.  A run that ended on a source *)
(* stake account that is not Initialized, on a source balance below what   *)
(* the create batch requires, on a stake account found with another        *)
(* balance than configured, or on a failed transaction of the create batch *)
(* has exited with a nonzero code and has sent no transaction of the       *)
(* delegate batch.                                                         *)

FatalCauses ==
    {"source_not_initialized", "insufficient_source", "unexpected_balance",
     "create_failed"}

Underfunded ==
    /\ create_stake_transactions # <<>>
    /\ source_stake_balance < source_stake_lamports_required

C21_Fatal ==
    (pc = "exited" /\ (exit_cause \in FatalCauses \/ Underfunded \/ CreateFailed)) =>
        /\ exit_code # "0"
        /\ sent.delegate = 0

C21_Success ==
    pc = "exited" =>
        (exit_code = "0" <=> (batch = "delegate" /\ tx_result = "Ok"))

---------------------------------------------------------------------------
(* C22: the liveness test does not wrap around.  While the chain is below  *)
(* slot 256 every processed validator is current: its DelegateBaseline is  *)
(* in the delegate batch, it gets no Deactivate of its baseline stake and  *)
(* the loop does not stop on it.                                           *)

C22_NoWrapAround ==
    absolute_slot < CurrentTolerance =>
        /\ \A i \in Processed :
              LET node == vote_account_info[i].node_pubkey IN
              /\ Tx("DelegateBaseline", node)
                    \in Range(delegate_stake_transactions)
              /\ Tx("DeactivateBaseline", node)
                    \notin Range(delegate_stake_transactions)
        /\ (pc = "exited" /\ next_validator <= Len(vote_account_info)) =>
              exit_cause # "panic"
---------------------------------------------------------------------------
(* transact alone, against a chain whose get_signature_statuses may answer *)
(* with fewer or more statuses than the signatures it was asked about      *)

AnyReplyInit ==
    /\ dry_run \in BOOLEAN
    /\ whitelist = {}
    /\ InitMain
    /\ InitClassifier
    /\ InitChain
    /\ InitTransactWith(TRUE)
    /\ batch \in {"create", "delegate"}
    /\ transactions \in Batches
    /\ pc = "transact_begin"
    /\ exit_code = "running"
    /\ exit_cause = "none"

AnyReplySpec == AnyReplyInit /\ [][TransactNext]_vars

\* the transactions of the batch not yet handed to send_transaction
UnsentIntents == {i \in Batch : i >= next_tx}

\* the transactions of the batch in pending_transactions
PendingIntents == {i \in Batch : transactions[i] \in Range(pending_transactions)}

\* the transactions of the batch with a pair in finalized_transactions
FinalizedIntents ==
    {i \in Batch : Outcomes(transactions[i], finalized_transactions) # {}}

---------------------------------------------------------------------------
(* C23: outcome conservation in transact, whatever number of statuses a    *)
(* status lookup returns.  At every point the unsent, pending and          *)
(* finalized transactions are disjoint and together are the whole batch,   *)
(* and a return of Ok on a live batch of n transactions holds exactly n    *)
(* pairs, one for each transaction.                                        *)

C23_OutcomeConservation ==
    /\ Cardinality(UnsentIntents) + Cardinality(PendingIntents)
           + Cardinality(FinalizedIntents) = Len(transactions)
    /\ UnsentIntents \cup PendingIntents \cup FinalizedIntents = Batch
    /\ (pc = "returned" /\ tx_result = "Ok" /\ ~dry_run) =>
          /\ Cardinality(finalized_transactions) = Len(transactions)
          /\ \A i \in Batch :
                Cardinality(Outcomes(transactions[i], finalized_transactions)) = 1
---------------------------------------------------------------------------
(* The run is in or past its delegate stage, which it reaches only after a *)
(* create stage that was empty or in which every transaction succeeded.    *)

DelegateStage == batch = "delegate" /\ pc \in {"send", "poll", "returned", "exited"}

\* transactions of the delegate batch that failed: rejected by
\* send_transaction, finalized with an execution error, or expired
DelegateFailures ==
    {i \in Batch : DelegateStage /\ TxStatus(i) = "FinalizedFailure"}

(* C24, as claimed: failures in the delegate batch are not fatal.  A run   *)
(* in which a transaction of the delegate batch failed, after a create     *)
(* stage that succeeded or was empty, ends with exit status 0.             *)

C24_FailuresNeverFatal ==
    (pc = "exited" /\ DelegateFailures # {}) => exit_code = "0"

(* C24, amended: failures in the delegate batch are not fatal by           *)
(* themselves.  A run in which a transaction of the delegate batch failed  *)
(* ends with exit status 0 whenever transact returns its outcomes, and     *)
(* ends with status 1 only when a chain read of a later poll cycle fails   *)
(* while other transactions are still pending.  A transaction is a success *)
(* only if it was sent and the call of transact made a status lookup, in a *)
(* poll cycle other than the one that found the blockhash expired.         *)

C24_ExitAfterFailures ==
    (pc = "exited" /\ DelegateFailures # {}) =>
        IF tx_result = "Ok"
        THEN exit_code = "0" /\ pending_transactions = <<>>
        ELSE /\ tx_result = "Err:rpc_poll"
             /\ exit_code = "1"
             /\ pending_transactions # <<>>

C24_SuccessNeedsLookup ==
    \A i \in Batch :
        TxStatus(i) = "FinalizedSuccess" =>
            /\ i < next_tx
            /\ lookups >= 1
            /\ poll_cycles >= (IF expired THEN 2 ELSE 1)

C24_DelegateFailures == C24_ExitAfterFailures /\ C24_SuccessNeedsLookup

\* the create stage succeeded, one transaction of the delegate batch is a
\* success and another a failure, and the run ended with exit status 0
C24_Witness ==
    /\ pc = "exited"
    /\ exit_code = "0"
    /\ sent.create > 0
    /\ DelegateFailures # {}
    /\ \E i \in Batch : TxStatus(i) = "FinalizedSuccess"
====
